---- MODULE Spec2Model ----
(***************************************************************************)
(* The database agent of the Spotify clone (scripts/database-agent.ts):    *)
(* processQuery and the steps it sequences (analyzeQuery,                  *)
(* executeOperations, createAPIRoutes, updateFrontend), run against a      *)
(* SQLite store of four tables and a directory of generated route files.   *)
(* Every awaited call (classifier, storage, file system) is one step and   *)
(* may return or raise. The read side is the recently-played route the     *)
(* agent generates and the component SpotifyMainContentDB, whose fetchData *)
(* loads the three routes.                                                 *)
(***************************************************************************)
EXTENDS Integers, Sequences, FiniteSets, TLC

VARIABLES
  schema,   \* table -> "absent" | "pushed" (drizzle schema.ts) | "agent" (createTableIfNotExists)
  rows,     \* table -> set of stored rows (records, primary key id)
  files,    \* route directory -> content of its route.ts, or "absent"
  now,      \* the value Date.now() last read, in ms since the first run was launched
  ticks,    \* number of clock advances taken so far
  pc,       \* agent -> position in processQuery
  ctx,      \* agent -> this.context: [query, steps, currentStep]
  idx,      \* agent -> index of the populate loop in progress (1-based)
  run,      \* agent -> what the current run did so far (observation only)
  error,    \* agent -> the error processQuery rethrew, "none" while there is none
  runs,     \* number of processQuery calls made so far
  proc,     \* the command-line process: [mode, status, code]
  ui        \* the state of the SpotifyMainContentDB component and its fetchData call

vars == <<schema, rows, files, now, ticks, pc, ctx, idx, run, error, runs, proc, ui>>

-----------------------------------------------------------------------------
(* Bounds of the model *)

\* rows in each of the three frontend fixtures
NumSeed == 2
\* clock advances in one behaviour
MaxTicks == 1
\* processQuery calls in one behaviour
MaxRuns == 2

-----------------------------------------------------------------------------
(* Program constants *)

\* 60 * 60 * 1000, the stagger between history rows
HourMs == 3600000
\* integer(..., { mode: 'timestamp' }) stores whole seconds
SecondMs == 1000

Agents == {"a1", "a2"}

Tables == {"tracks", "recently_played", "made_for_you_playlists", "popular_albums"}

\* the order executeOperations and createAPIRoutes test the triggers in
Kinds == <<"recently played", "made for you", "popular albums">>

KindSet == {Kinds[i] : i \in DOMAIN Kinds}

\* the tables a kind's handler works on; the last one is the table populate counts
TablesOf(k) ==
  CASE k = "recently played" -> {"tracks", "recently_played"}
    [] k = "made for you" -> {"made_for_you_playlists"}
    [] k = "popular albums" -> {"popular_albums"}

-----------------------------------------------------------------------------
(* Queries: a query text is a sequence of words and punctuation marks,      *)
(* single spaces between the words left implicit.                           *)

QueryRecent == <<"Can", "you", "store", "the", "recently", "played", "songs", "in", "a", "table">>

QueryMadePopular ==
  <<"Can", "you", "store", "the", "'", "Made", "for", "you", "'", "and", "'", "Popular",
    "albums", "'", "in", "a", "table">>

QueryReversed == <<"POPULAR", "ALBUMS", "and", "Made", "For", "You">>

QueryNone == <<"show", "my", "library">>

Queries == {QueryRecent, QueryMadePopular, QueryReversed, QueryNone}

\* String.prototype.toLowerCase on one word
LowerWord(w) ==
  CASE w = "Can" -> "can"
    [] w = "Made" -> "made"
    [] w = "Popular" -> "popular"
    [] w = "POPULAR" -> "popular"
    [] w = "ALBUMS" -> "albums"
    [] w = "For" -> "for"
    [] w = "You" -> "you"
    [] OTHER -> w

ToLowerCase(q) == [i \in DOMAIN q |-> LowerWord(q[i])]

\* String.prototype.includes: the phrase occurs as a contiguous run
Includes(q, phrase) ==
  \E i \in 1..(Len(q) - Len(phrase) + 1) : SubSeq(q, i, i + Len(phrase) - 1) = phrase

Phrase(k) ==
  CASE k = "recently played" -> <<"recently", "played">>
    [] k = "made for you" -> <<"made", "for", "you">>
    [] k = "popular albums" -> <<"popular", "albums">>

\* the kinds whose trigger phrase a query text contains, case ignored, tabulated
\* for the query texts of the model and the empty text of a fresh context
KeywordTable ==
  [q \in Queries \cup {<<>>} |-> {k \in KindSet : Includes(ToLowerCase(q), Phrase(k))}]

KeywordKinds(q) == KeywordTable[q]

\* a variant of Triggered that trusts the classifier: a kind counts only when
\* the classifier's answer was parsed
TriggeredIfAnalysed(c, k) ==
  /\ Includes(ToLowerCase(c.query), Phrase(k))
  /\ c.steps # <<>>
  /\ c.steps[1] = "Analyzed query: description"

\* does the if-statement for kind k in executeOperations / createAPIRoutes fire:
\* query.toLowerCase().includes(phrase), looked up in the table
Triggered(c, k) == k \in KeywordKinds(c.query)

Named(c) == {k \in KindSet : Triggered(c, k)}

-----------------------------------------------------------------------------
(* The frontend fixtures the agent imports *)

FixtureRow(prefix, i) ==
  [id |-> prefix \o ToString(i), title |-> "title", artist |-> "artist",
   album |-> "album", image |-> "image", duration |-> 180 + i]

recentlyPlayedData == [i \in 1..NumSeed |-> FixtureRow("t", i)]

madeForYouData == [i \in 1..NumSeed |-> FixtureRow("m", i)]

popularAlbumsData == [i \in 1..NumSeed |-> FixtureRow("p", i)]

-----------------------------------------------------------------------------
(* The store *)

Ids(t) == {r.id : r \in rows[t]}

Count(t) == Cardinality(rows[t])

\* mapToDriverValue of a { mode: 'timestamp' } column: Math.floor(ms / 1000)
ToTimestamp(ms) == ms \div SecondMs

\* the column names schema.ts declares, which every insert and select drizzle
\* builds on the table names
DeclaredColumns(t) ==
  CASE t = "tracks" ->
         {"id", "title", "artist", "album", "album_art", "duration", "created_at"}
    [] t = "recently_played" -> {"id", "track_id", "played_at"}
    [] t = "made_for_you_playlists" -> {"id", "title", "description", "image", "created_at"}
    [] t = "popular_albums" -> {"id", "title", "artist", "image", "duration", "created_at"}

\* the column names in the CREATE TABLE IF NOT EXISTS text of createTableIfNotExists
CreatedColumns(t) ==
  CASE t = "tracks" ->
         {"id", "title", "artist", "album", "albumArt", "duration", "createdAt"}
    [] t = "recently_played" -> {"id", "trackId", "playedAt"}
    [] t = "made_for_you_playlists" -> {"id", "title", "description", "image", "createdAt"}
    [] t = "popular_albums" -> {"id", "title", "artist", "image", "duration", "createdAt"}

\* the columns of table t as it is in the database
ColumnsOf(t) ==
  CASE schema[t] = "pushed" -> DeclaredColumns(t)
    [] schema[t] = "agent" -> CreatedColumns(t)
    [] schema[t] = "absent" -> {}

\* a statement on table t that names drizzle's column names runs only on a table
\* that has them; count(*) names no column and runs on any existing table
HasColumns(t) == DeclaredColumns(t) \subseteq ColumnsOf(t)

Exists(t) == schema[t] # "absent"

-----------------------------------------------------------------------------
(* Positions in processQuery *)

At(step) == [step |-> step, kind |-> "", tbl |-> ""]

InKind(step, k, t) == [step |-> step, kind |-> k, tbl |-> t]

Running(a) == pc[a].step \notin {"idle", "done", "failed"}

\* what a run has done so far: the kinds whose handler it entered and completed,
\* the tables it called ensureTableExists on, those of them whose count read in
\* ensureTableExists returned and the tables it issued a create statement on (one
\* entry per statement, in the order issued; both kept in SpecObserved only), the
\* kinds whose populate step
\* skipped, the tables it found empty when a populate step counted, the tables it
\* added a row to, the kinds whose route it wrote, and the kinds whose handler
\* completed, and the kinds whose route was written, in the run just before it
FreshRun ==
  [entered |-> {}, completed |-> {}, ensured |-> {}, readOk |-> {}, created |-> <<>>,
   skipped |-> {}, foundEmpty |-> {}, added |-> {}, written |-> {}, okBefore |-> {},
   wroteBefore |-> {}]

\* errors raised by the environment (network, disk, database engine) at any call
ExternalFaults ==
  {"classifier call failed", "create table failed", "count failed", "insert failed",
   "verify read failed", "file write failed"}

\* errors SQLite raises for a statement that names a table or column that is not there
SchemaErrors == {"no such table", "no such column"}

MissingError(t) == IF Exists(t) THEN "no such column" ELSE "no such table"

\* the table populate<Kind>Data counts before it inserts
GuardTable(k) ==
  CASE k = "recently played" -> "recently_played"
    [] k = "made for you" -> "made_for_you_playlists"
    [] k = "popular albums" -> "popular_albums"

\* variants of FirstTable: one that leaves the tracks out, one that starts every
\* handler with the tracks
FirstTableHistoryOnly(k) == GuardTable(k)

FirstTableTracksAlways(k) == "tracks"

\* the table the handler of kind k ensures first, and inserts into first
FirstTable(k) == IF k = "recently played" THEN "tracks" ELSE GuardTable(k)

Fixture(k) ==
  CASE k = "recently played" -> recentlyPlayedData
    [] k = "made for you" -> madeForYouData
    [] k = "popular albums" -> popularAlbumsData

\* a variant of NextTriggered that goes through the kinds from the last to the first
NextTriggeredReversed(c, i) ==
  LET cand == {j \in DOMAIN Kinds : Triggered(c, Kinds[j]) /\ (i = 0 \/ j < i)} IN
  IF cand = {} THEN 0 ELSE CHOOSE j \in cand : \A l \in cand : l <= j

\* a variant of NextTriggered that falls back to the first kind when the query
\* contains no trigger
NextTriggeredOrDefault(c, i) ==
  IF \E j \in DOMAIN Kinds : Triggered(c, Kinds[j])
    THEN IF \E j \in DOMAIN Kinds : j > i /\ Triggered(c, Kinds[j])
           THEN CHOOSE j \in DOMAIN Kinds :
                  /\ j > i
                  /\ Triggered(c, Kinds[j])
                  /\ \A l \in DOMAIN Kinds : (l > i /\ Triggered(c, Kinds[l])) => j <= l
           ELSE 0
    ELSE IF i = 0 THEN 1 ELSE 0

\* the first kind after position i of Kinds whose trigger the query contains, 0 if none
NextTriggered(c, i) ==
  IF \E j \in DOMAIN Kinds : j > i /\ Triggered(c, Kinds[j])
    THEN CHOOSE j \in DOMAIN Kinds :
           /\ j > i
           /\ Triggered(c, Kinds[j])
           /\ \A l \in DOMAIN Kinds : (l > i /\ Triggered(c, Kinds[l])) => j <= l
    ELSE 0

KindIndex(k) == CHOOSE i \in DOMAIN Kinds : Kinds[i] = k

\* logStep
LogStep(c) == [c EXCEPT !.currentStep = @ + 1]

PushStep(c, s) == [c EXCEPT !.steps = Append(@, s)]

\* a variant of Fail in which each handler catches its own error and the run goes
\* on with the next triggered kind
FailContinues(a, err) ==
  LET j == IF pc[a].kind = "" THEN 0 ELSE NextTriggered(ctx[a], KindIndex(pc[a].kind)) IN
  /\ pc' = [pc EXCEPT ![a] = IF j # 0 THEN InKind("ensure", Kinds[j], FirstTable(Kinds[j]))
                                      ELSE At("failed")]
  /\ error' = [error EXCEPT ![a] = err]

\* a variant of Fail in which a route that cannot be written is logged and the
\* next route is written
FailSkipsRoute(a, err) ==
  LET j == IF pc[a].step = "write" THEN NextTriggered(ctx[a], KindIndex(pc[a].kind)) ELSE 0 IN
  /\ pc' = [pc EXCEPT ![a] = IF pc[a].step # "write" THEN At("failed")
                             ELSE IF j # 0 THEN InKind("write", Kinds[j], "")
                             ELSE At("done")]
  /\ error' = [error EXCEPT ![a] = IF pc[a].step = "write" THEN @ ELSE err]

\* a variant of Fail that logs the error and lets the run go on to createAPIRoutes
FailSwallowed(a, err) ==
  /\ pc' = [pc EXCEPT ![a] = At("routes")]
  /\ error' = [error EXCEPT ![a] = err]

\* a variant of Fail in which the failed call is made again
FailRetries(a, err) ==
  /\ UNCHANGED pc
  /\ error' = [error EXCEPT ![a] = err]

\* the catch of processQuery: log and rethrow
Fail(a, err) ==
  /\ pc' = [pc EXCEPT ![a] = At("failed")]
  /\ error' = [error EXCEPT ![a] = err]

-----------------------------------------------------------------------------
(* processQuery *)

\* a variant of the first statement of processQuery that sets the query only
NewContextKeepsLog(c, q) == [c EXCEPT !.query = q]

\* this.context = { query: userQuery, steps: [], currentStep: 0 }
NewContext(c, q) == [query |-> q, steps |-> <<>>, currentStep |-> 0]

\* a new processQuery call: the context is replaced
Start(a, q) ==
  /\ ~Running(a)
  /\ runs < MaxRuns
  /\ runs' = runs + 1
  /\ ctx' = [ctx EXCEPT ![a] = NewContext(@, q)]
  /\ pc' = [pc EXCEPT ![a] = At("analyze")]
  /\ run' = [run EXCEPT ![a] = [FreshRun EXCEPT !.okBefore = run[a].completed,
                                                !.wroteBefore = run[a].written]]
  /\ error' = [error EXCEPT ![a] = "none"]
  /\ idx' = [idx EXCEPT ![a] = 0]
  /\ UNCHANGED <<schema, rows, files, now, ticks, proc, ui>>

\* what the classifier may answer: JSON with a tables array (naming tables the
\* query is about, or others), JSON without one, or text that is no JSON
Responses ==
  { [parses |-> TRUE, hasTables |-> TRUE, tables |-> <<"recently_played">>],
    [parses |-> TRUE, hasTables |-> TRUE, tables |-> <<"users", "popular_albums">>],
    [parses |-> TRUE, hasTables |-> FALSE, tables |-> <<>>],
    [parses |-> FALSE, hasTables |-> FALSE, tables |-> <<>>] }

\* the try/catch around JSON.parse and analysis.tables.join
AnalysisStep(r) ==
  IF r.parses /\ r.hasTables
    THEN "Analyzed query: description"
    ELSE "Analyzed query for database operations"

AnalyzeQuery(a) ==
  /\ pc[a].step = "analyze"
  /\ \/ \* generateContent rejects: nothing catches it before processQuery does
        /\ Fail(a, "classifier call failed")
        /\ ctx' = [ctx EXCEPT ![a] = LogStep(@)]
     \/ \E r \in Responses :
          /\ ctx' = [ctx EXCEPT ![a] = PushStep(LogStep(@), AnalysisStep(r))]
          /\ pc' = [pc EXCEPT ![a] = At("exec")]
          /\ UNCHANGED error
  /\ UNCHANGED <<schema, rows, files, now, ticks, idx, run, runs, proc, ui>>

\* a variant of EnterNextKind in which executeOperations returns after the first
\* handler that ran
EnterNextKindFirstOnly(a, c, i, returned) ==
  LET j == IF i = 0 THEN NextTriggered(c, i) ELSE 0 IN
  IF j # 0
    THEN /\ pc' = [pc EXCEPT ![a] = InKind("ensure", Kinds[j], FirstTable(Kinds[j]))]
         /\ run' = [run EXCEPT ![a].entered = @ \cup {Kinds[j]},
                               ![a].completed = @ \cup returned]
         /\ ctx' = [ctx EXCEPT ![a] = c]
    ELSE /\ pc' = [pc EXCEPT ![a] = At("routes")]
         /\ run' = [run EXCEPT ![a].completed = @ \cup returned]
         /\ ctx' = [ctx EXCEPT ![a] = PushStep(c, "Executed database operations")]

\* control after kind number i of executeOperations, whose handlers `returned` have
\* returned: the next triggered handler, or the end of executeOperations
EnterNextKind(a, c, i, returned) ==
  LET j == NextTriggered(c, i) IN
  IF j # 0
    THEN /\ pc' = [pc EXCEPT ![a] = InKind("ensure", Kinds[j], FirstTable(Kinds[j]))]
         /\ run' = [run EXCEPT ![a].entered = @ \cup {Kinds[j]},
                               ![a].completed = @ \cup returned]
         /\ ctx' = [ctx EXCEPT ![a] = c]
    ELSE /\ pc' = [pc EXCEPT ![a] = At("routes")]
         /\ run' = [run EXCEPT ![a].completed = @ \cup returned]
         /\ ctx' = [ctx EXCEPT ![a] = PushStep(c, "Executed database operations")]

ExecuteOperations(a) ==
  /\ pc[a].step = "exec"
  /\ EnterNextKind(a, LogStep(ctx[a]), 0, {})
  /\ UNCHANGED <<schema, rows, files, now, ticks, idx, error, runs, proc, ui>>


-----------------------------------------------------------------------------
(* The handlers: ensureTableExists, populate<Kind>Data, the verifying read *)

\* createTableIfNotExists: CREATE TABLE IF NOT EXISTS with the columns the agent spells
CreatedSchema(old) == IF old = "absent" THEN "agent" ELSE old

\* a variant of the create statement that drops the table first
CreatedRowsDropped(old) == {}

\* the rows of a table after CREATE TABLE IF NOT EXISTS: those it had
CreatedRows(old) == old

\* after ensureTableExists(t) in the handler of kind k
AfterEnsure(k, t) ==
  IF k = "recently played" /\ t = "tracks"
    THEN InKind("ensure", k, "recently_played")
    ELSE InKind("count", k, GuardTable(k))

\* a variant of the catch in which the create statement is issued whether or not
\* the count read raised
TableMissingAlways(readRaised) == TRUE

\* tableMissing: set in the catch around the count read, where the create
\* statement is issued
TableMissing(readRaised) == readRaised

\* one ensureTableExists call; with `observed` the run record keeps which count
\* reads returned and which create statements were issued
EnsureStep(a, observed) ==
  LET k == pc[a].kind
      t == pc[a].tbl
  IN
  /\ pc[a].step = "ensure"
  /\ \E readRaised \in BOOLEAN :
       \* the count read raises on a table that is not there, and may raise on
       \* one that is (any other failure)
       /\ ~Exists(t) => readRaised
       /\ IF TableMissing(readRaised)
            THEN \/ \* createTableIfNotExists returns
                    /\ schema' = [schema EXCEPT ![t] = CreatedSchema(@)]
                    /\ rows' = [rows EXCEPT ![t] = CreatedRows(@)]
                    /\ pc' = [pc EXCEPT ![a] = AfterEnsure(k, t)]
                    /\ UNCHANGED error
                 \/ \* the create statement raises: rethrown by both catches
                    /\ Fail(a, "create table failed")
                    /\ UNCHANGED <<schema, rows>>
            ELSE /\ pc' = [pc EXCEPT ![a] = AfterEnsure(k, t)]
                 /\ UNCHANGED <<schema, rows, error>>
       /\ run' = [run EXCEPT
                    ![a].ensured = @ \cup {t},
                    ![a].readOk = IF observed /\ ~readRaised THEN @ \cup {t} ELSE @,
                    ![a].created = IF observed /\ TableMissing(readRaised)
                                     THEN Append(@, t) ELSE @]
  /\ UNCHANGED <<files, now, ticks, ctx, idx, runs, proc, ui>>

EnsureTableExists(a) == EnsureStep(a, FALSE)

\* the same call with its statements recorded
EnsureTableExistsObserved(a) == EnsureStep(a, TRUE)

\* variants of AlreadyPopulated: the skip never taken, and taken only for a
\* table that holds as many rows as the fixture
AlreadyPopulatedNever(k) == FALSE

AlreadyPopulatedWhenFull(k) == Count(GuardTable(k)) >= Len(Fixture(k))

\* the skip test of populate<Kind>Data
AlreadyPopulated(k) == Count(GuardTable(k)) > 0

PopulateCount(a) ==
  LET k == pc[a].kind IN
  /\ pc[a].step = "count"
  /\ \/ \* the count read raises
        /\ Fail(a, "count failed")
        /\ UNCHANGED <<idx, run>>
     \/ /\ Exists(GuardTable(k))
        /\ AlreadyPopulated(k)
        /\ pc' = [pc EXCEPT ![a] = InKind("verify", k, "")]
        /\ run' = [run EXCEPT ![a].skipped = @ \cup {k}]
        /\ UNCHANGED <<idx, error>>
     \/ /\ Exists(GuardTable(k))
        /\ ~AlreadyPopulated(k)
        /\ pc' = [pc EXCEPT ![a] = InKind("insert", k, FirstTable(k))]
        /\ idx' = [idx EXCEPT ![a] = 1]
        /\ run' = [run EXCEPT ![a].foundEmpty = @ \cup {t \in TablesOf(k) : rows[t] = {}}]
        /\ UNCHANGED error
  /\ UNCHANGED <<schema, rows, files, now, ticks, ctx, runs, proc, ui>>

\* the values(...) of the insert into table t for fixture row number i (1-based;
\* the code's i is i - 1), with clock the value Date.now() / new Date() reads
SeedRow(k, t, i, clock) ==
  LET f == Fixture(k)[i] IN
  CASE t = "tracks" ->
         [id |-> f.id, title |-> f.title, artist |-> f.artist, album |-> f.album,
          albumArt |-> f.image, duration |-> f.duration, createdAt |-> ToTimestamp(clock)]
    [] t = "recently_played" ->
         [id |-> "recent-" \o ToString(i), trackId |-> f.id,
          playedAt |-> ToTimestamp(clock - ((i - 1) * HourMs))]
    [] t = "made_for_you_playlists" ->
         [id |-> f.id, title |-> f.title, description |-> f.artist, image |-> f.image,
          createdAt |-> ToTimestamp(clock)]
    [] t = "popular_albums" ->
         [id |-> f.id, title |-> f.title, artist |-> f.artist, image |-> f.image,
          duration |-> f.duration, createdAt |-> ToTimestamp(clock)]

\* Date.now(): the clock never runs backwards, and any time may have passed since
\* it was last read. The clock is read at the inserts only. The model lets time
\* pass (`passes`) at the inserts of populateRecentlyPlayedData, whose history
\* timestamps are computed from the values read; elsewhere the read returns the
\* value last read
ReadClock(passes) ==
  \/ /\ passes
     /\ ticks < MaxTicks
     /\ \E d \in {SecondMs, HourMs} : now' = now + d
     /\ ticks' = ticks + 1
  \/ UNCHANGED <<now, ticks>>

\* a variant of the insert on a table without a primary key
InsertAppend(table, row) == table \cup {row}

\* a variant of the insert that replaces the row on a conflict
InsertOrReplace(table, row) == {r \in table : r.id # row.id} \cup {row}

\* insert ... on conflict do nothing
InsertOnConflictDoNothing(table, row) ==
  IF row.id \in {r.id : r \in table} THEN table ELSE table \cup {row}

\* after insert number i into table t in populate<Kind>Data
AfterInsert(a, k, t, i) ==
  IF i < Len(Fixture(k))
    THEN /\ idx' = [idx EXCEPT ![a] = i + 1]
         /\ UNCHANGED pc
    ELSE IF k = "recently played" /\ t = "tracks"
      THEN /\ idx' = [idx EXCEPT ![a] = 1]
           /\ pc' = [pc EXCEPT ![a] = InKind("insert", k, "recently_played")]
      ELSE /\ idx' = [idx EXCEPT ![a] = 0]
           /\ pc' = [pc EXCEPT ![a] = InKind("verify", k, "")]

InsertSeed(a) ==
  LET k == pc[a].kind
      t == pc[a].tbl
      i == idx[a]
  IN
  /\ pc[a].step = "insert"
  /\ \/ \* the insert raises for a reason outside the program
        /\ Fail(a, "insert failed")
        /\ UNCHANGED <<rows, idx, run, now, ticks>>
     \/ \* the table lacks a column the statement names
        /\ ~HasColumns(t)
        /\ Fail(a, MissingError(t))
        /\ UNCHANGED <<rows, idx, run, now, ticks>>
     \/ /\ HasColumns(t)
        /\ ReadClock(k = "recently played")
        /\ rows' = [rows EXCEPT ![t] = InsertOnConflictDoNothing(@, SeedRow(k, t, i, now'))]
        /\ run' = [run EXCEPT ![a].added = IF rows'[t] # rows[t] THEN @ \cup {t} ELSE @]
        /\ AfterInsert(a, k, t, i)
        /\ UNCHANGED error
  /\ UNCHANGED <<schema, files, ctx, runs, proc, ui>>

\* the sample read that ends each handler (a join for recently played); its
\* rejection is caught nowhere before processQuery
VerifyRead(a) ==
  LET k == pc[a].kind IN
  /\ pc[a].step = "verify"
  /\ \/ /\ Fail(a, "verify read failed")
        /\ UNCHANGED <<ctx, run>>
     \/ /\ \E t \in TablesOf(k) : ~HasColumns(t)
        /\ Fail(a, "no such column")
        /\ UNCHANGED <<ctx, run>>
     \/ /\ \A t \in TablesOf(k) : HasColumns(t)
        /\ EnterNextKind(a, ctx[a], KindIndex(k), {k})
        /\ UNCHANGED error
  /\ UNCHANGED <<schema, rows, files, now, ticks, idx, runs, proc, ui>>

-----------------------------------------------------------------------------
(* createAPIRoutes and updateFrontend *)

\* the text create<Kind>Route writes: a fixed template per kind
RouteContent(k) == "route.ts of " \o k

\* the directory create<Kind>Route writes route.ts into, relative to the working directory
RoutePath(k) ==
  CASE k = "recently played" -> "src/app/api/recently-played"
    [] k = "made for you" -> "src/app/api/made-for-you"
    [] k = "popular albums" -> "src/app/api/popular-albums"

RoutePaths == {RoutePath(k) : k \in KindSet}

\* a variant of the write that keeps a file that is already there
WriteIfAbsent(fs, path, content) ==
  IF fs[path] = "absent" THEN [fs EXCEPT ![path] = content] ELSE fs

\* ensureDirectoryExists, then fs.writeFileSync(path.join(routePath, 'route.ts'), content)
WriteFileSync(fs, path, content) == [fs EXCEPT ![path] = content]

\* control after kind number i of createAPIRoutes: the next triggered route, or
\* the end of createAPIRoutes followed by updateFrontend and the return
WriteNextRoute(a, c, i) ==
  LET j == NextTriggered(c, i) IN
  IF j # 0
    THEN /\ pc' = [pc EXCEPT ![a] = InKind("write", Kinds[j], "")]
         /\ ctx' = [ctx EXCEPT ![a] = c]
    ELSE /\ pc' = [pc EXCEPT ![a] = At("done")]
         /\ ctx' = [ctx EXCEPT ![a] =
                      PushStep(LogStep(PushStep(c, "Created API routes")),
                               "Prepared frontend integration (bonus)")]

CreateAPIRoutes(a) ==
  /\ pc[a].step = "routes"
  /\ WriteNextRoute(a, LogStep(ctx[a]), 0)
  /\ UNCHANGED <<schema, rows, files, now, ticks, idx, run, error, runs, proc, ui>>

CreateRoute(a) ==
  LET k == pc[a].kind IN
  /\ pc[a].step = "write"
  /\ \/ \* mkdirSync or writeFileSync throws
        /\ Fail(a, "file write failed")
        /\ UNCHANGED <<files, ctx, run>>
     \/ /\ files' = WriteFileSync(files, RoutePath(k), RouteContent(k))
        /\ run' = [run EXCEPT ![a].written = @ \cup {k}]
        /\ WriteNextRoute(a, ctx[a], KindIndex(k))
        /\ UNCHANGED error
  /\ UNCHANGED <<schema, rows, now, ticks, idx, runs, proc, ui>>

-----------------------------------------------------------------------------
(* The generated routes: what GET answers on success, as a set of elements *)

\* the plain number the made-for-you route puts among the select fields
DefaultDuration == 210

\* db.select(fields) builds its field list from columns and SQL expressions; what
\* it does with a plain number is not fixed by this repository: the key is left
\* out of the result, or comes back with the number
LiteralOutcomes == {"dropped", "kept"}

RecentlyPlayedGET ==
  {[id |-> p[2].id, title |-> p[2].title, artist |-> p[2].artist, album |-> p[2].album,
    image |-> p[2].albumArt, duration |-> p[2].duration, playedAt |-> p[1].playedAt] :
     p \in {q \in rows["recently_played"] \X rows["tracks"] : q[1].trackId = q[2].id}}

MadeForYouGET(literal) ==
  {IF literal = "kept"
     THEN [id |-> r.id, title |-> r.title, artist |-> r.description, album |-> r.title,
           image |-> r.image, duration |-> DefaultDuration]
     ELSE [id |-> r.id, title |-> r.title, artist |-> r.description, album |-> r.title,
           image |-> r.image] :
     r \in rows["made_for_you_playlists"]}

PopularAlbumsGET ==
  {[id |-> r.id, title |-> r.title, artist |-> r.artist, album |-> r.title,
    image |-> r.image, duration |-> r.duration] :
     r \in rows["popular_albums"]}

\* the fields of interface Track
TrackShape == {"id", "title", "artist", "album", "image", "duration"}

-----------------------------------------------------------------------------
(* Specifications *)

\* the route files before the first run: one not there, one changed by hand, one
\* as the agent generates it
InitFiles ==
  [d \in RoutePaths |->
     CASE d = RoutePath("recently played") -> "absent"
       [] d = RoutePath("made for you") -> "edited by hand"
       [] d = RoutePath("popular albums") -> RouteContent("popular albums")]

\* the component as useState initialises it, before its effect has run
InitialUi ==
  [recentlyPlayed |-> <<>>, madeForYou |-> {}, popularAlbums |-> {}, loading |-> TRUE,
   error |-> "null", step |-> "mounted", responses |-> <<>>, badJson |-> {}, calls |-> 0]

\* no command line modelled: processQuery is called directly
NoProc == [mode |-> "none", status |-> "not started", code |-> 0]

\* the store before the first run: a fresh checkout (no table) or the tables
\* drizzle pushed from schema.ts, without rows
Init ==
  /\ schema \in {[t \in Tables |-> "absent"], [t \in Tables |-> "pushed"]}
  /\ rows = [t \in Tables |-> {}]
  /\ files = InitFiles
  /\ now = 0
  /\ ticks = 0
  /\ pc = [a \in Agents |-> At("idle")]
  /\ ctx = [a \in Agents |-> [query |-> <<>>, steps |-> <<>>, currentStep |-> 0]]
  /\ idx = [a \in Agents |-> 0]
  /\ run = [a \in Agents |-> FreshRun]
  /\ error = [a \in Agents |-> "none"]
  /\ runs = 0
  /\ proc = NoProc
  /\ ui = InitialUi

\* the steps of a run under way
Work(a) ==
  \/ AnalyzeQuery(a)
  \/ ExecuteOperations(a)
  \/ EnsureTableExists(a)
  \/ PopulateCount(a)
  \/ InsertSeed(a)
  \/ VerifyRead(a)
  \/ CreateAPIRoutes(a)
  \/ CreateRoute(a)

\* the steps of a run under way, the statements ensureTableExists issues recorded
WorkObserved(a) ==
  \/ AnalyzeQuery(a)
  \/ ExecuteOperations(a)
  \/ EnsureTableExistsObserved(a)
  \/ PopulateCount(a)
  \/ InsertSeed(a)
  \/ VerifyRead(a)
  \/ CreateAPIRoutes(a)
  \/ CreateRoute(a)

\* one agent process, one query after another, statements recorded
NextObserved ==
  \/ \E q \in Queries : Start("a1", q)
  \/ WorkObserved("a1")

SpecObserved == Init /\ [][NextObserved]_vars

\* one agent process at a time, one query after another
Next ==
  \/ \E q \in Queries : Start("a1", q)
  \/ Work("a1")

Spec == Init /\ [][Next]_vars

\* Spec with every awaited call of a run under way returning or raising in the end
SpecLive == Init /\ [][Next]_vars /\ WF_vars(Work("a1"))

\* the query command: a process that runs one query and exits
QueryCommand(a, q) ==
  /\ ctx[a].query = <<>>
  /\ Start(a, q)

\* two query commands started side by side on one database
NextPair ==
  \E a \in Agents :
    \/ \E q \in Queries : QueryCommand(a, q)
    \/ Work(a)

SpecPair == Init /\ [][NextPair]_vars

-----------------------------------------------------------------------------
(* The command line: one process, from its launch to its exit *)

\* the `query` and `test` commands, and the three choices of the interactive menu
Modes == {"query", "test", "interactive query", "interactive test", "interactive exit"}

SingleQueryModes == {"query", "interactive query"}

SelfTestModes == {"test", "interactive test"}

Launch(m) ==
  /\ proc.status = "not started"
  /\ proc' = [mode |-> m, status |-> "running", code |-> 0]
  /\ UNCHANGED <<schema, rows, files, now, ticks, pc, ctx, idx, run, error, runs, ui>>

\* the processQuery calls a mode makes: one on the text entered, or the two
\* self-test queries, the second once the first has returned
CliStart(a) ==
  /\ proc.status = "running"
  /\ \/ /\ proc.mode \in SingleQueryModes
        /\ runs = 0
        /\ \E q \in Queries : Start(a, q)
     \/ /\ proc.mode \in SelfTestModes
        /\ runs = 0
        /\ Start(a, QueryRecent)
     \/ /\ proc.mode \in SelfTestModes
        /\ runs = 1
        /\ pc[a].step = "done"
        /\ Start(a, QueryMadePopular)

\* all the processQuery calls of the mode have returned
Finished(a) ==
  \/ proc.mode \in SingleQueryModes /\ runs = 1 /\ pc[a].step = "done"
  \/ proc.mode \in SelfTestModes /\ runs = 2 /\ pc[a].step = "done"

\* the exit status: 0 on process.exit(0) and when nothing is pending any more; a
\* rejected action promise of program.parse() is handled by nobody and ends the
\* process with status 1; the rejection of interactive() is handled by
\* .catch(console.error), after which nothing is pending
ExitCode(m, rejected) ==
  IF rejected /\ m # "interactive query" THEN 1 ELSE 0

ProcessExit(a) ==
  /\ proc.status = "running"
  /\ \/ proc.mode = "interactive exit"
     \/ Finished(a)
     \/ pc[a].step = "failed"
  /\ proc' = [proc EXCEPT !.status = "exited",
                          !.code = ExitCode(proc.mode, pc[a].step = "failed")]
  /\ UNCHANGED <<schema, rows, files, now, ticks, pc, ctx, idx, run, error, runs, ui>>

NextCli ==
  \/ \E m \in Modes : Launch(m)
  \/ CliStart("a1")
  \/ Work("a1")
  \/ ProcessExit("a1")

SpecCli == Init /\ [][NextCli]_vars

-----------------------------------------------------------------------------
(* Properties *)

Ended(a) == pc[a].step \in {"done", "failed"}

HistoryId(i) == "recent-" \o ToString(i)

\* C1: when the handler of a kind has run to completion in one run, the next run
\* naming the kind adds no row to any of the kind's tables (the row counts stay
\* what one run left), executes no insert and takes the "already has records,
\* skipping population" branch.
C1_SecondRunSkips ==
  \A a \in Agents : \A k \in run[a].okBefore :
    /\ TablesOf(k) \cap run[a].added = {}
    /\ ~(pc[a].kind = k /\ pc[a].step = "insert")
    /\ (k \in run[a].completed \/ (pc[a].kind = k /\ pc[a].step = "verify"))
         => k \in run[a].skipped

\* a second run has gone through the recently-played handler after a first one did
C1_Witness ==
  \E a \in Agents :
    /\ pc[a].step = "done"
    /\ "recently played" \in run[a].okBefore \cap run[a].completed \cap run[a].skipped
    /\ Count("tracks") = NumSeed
    /\ Count("recently_played") = NumSeed

\* C2 (as claimed): a run on a query that contains "recently played" always
\* provisions the tracks / recently_played pair, whatever the classifier does,
\* a failed classifier call included.
C2_RecentlyPlayedAlwaysProvisioned ==
  \A a \in Agents :
    (Ended(a) /\ Includes(ToLowerCase(ctx[a].query), <<"recently", "played">>))
      => "recently played" \in run[a].entered

\* C3: artifacts are generated only after every named kind has been provisioned
\* without an error; a run in which provisioning failed has written no artifact
\* and ends failed with the error that caused it.
C3_FailFast ==
  \A a \in Agents :
    /\ (pc[a].step \in {"routes", "write", "done"} \/ run[a].written # {})
         => run[a].completed = KeywordKinds(ctx[a].query)
    /\ (pc[a].step = "failed" /\ run[a].completed # KeywordKinds(ctx[a].query))
         => (run[a].written = {} /\ error[a] # "none")

\* provisioning of the first named kind failed
C3_Witness ==
  \E a \in Agents :
    /\ pc[a].step = "failed"
    /\ run[a].entered # {}
    /\ run[a].completed = {}
    /\ run[a].written = {}
    /\ error[a] \in {"create table failed", "count failed", "insert failed",
                     "verify read failed", "no such column"}

\* C4: every recently_played row references a track that is in the tracks table,
\* and while the history rows are being inserted the tracks of all rows still to
\* be inserted are already there.
C4_NoDanglingTrack ==
  /\ \A r \in rows["recently_played"] : r.trackId \in Ids("tracks")
  /\ \A a \in Agents :
       (pc[a].step = "insert" /\ pc[a].tbl = "recently_played")
         => \A i \in idx[a]..Len(recentlyPlayedData) :
              recentlyPlayedData[i].id \in Ids("tracks")

\* the history loop is under way with a row already inserted
C4_Witness ==
  \E a \in Agents :
    /\ pc[a].step = "insert"
    /\ pc[a].tbl = "recently_played"
    /\ idx[a] > 1
    /\ "recently_played" \in run[a].added

\* C5 (as claimed): the playedAt of history row i + 1 is strictly less than the
\* playedAt of row i, exactly one hour apart.
C5_HourlyStrictlyDecreasing ==
  \A r1, r2 \in rows["recently_played"] : \A i \in 1..(NumSeed - 1) :
    (r1.id = HistoryId(i) /\ r2.id = HistoryId(i + 1))
      => /\ r2.playedAt < r1.playedAt
         /\ r1.playedAt - r2.playedAt = HourMs \div SecondMs

\* C6: no step changes or removes a stored row, and no table ever holds two rows
\* with one id: an insert of an id that is already there is dropped.
C6_ConflictDropped ==
  [][\A t \in Tables :
       /\ rows[t] \subseteq rows'[t]
       /\ \A r1, r2 \in rows'[t] : r1.id = r2.id => r1 = r2]_vars

\* a run found the tables of its kinds empty, had every one of its inserts dropped
\* because another run had put the rows there in between, and went on to the end
C6_Witness ==
  \E a \in Agents :
    /\ pc[a].step = "done"
    /\ run[a].completed # {}
    /\ run[a].skipped = {}
    /\ UNION {TablesOf(k) : k \in run[a].completed} \subseteq run[a].foundEmpty
    /\ run[a].added = {}

\* C7 (as claimed): a failed classification never blocks provisioning: every run
\* that has ended went on from analyzeQuery to executeOperations.
C7_ClassifierFailureNeverBlocks ==
  \A a \in Agents : Ended(a) => ctx[a].currentStep >= 2

\* C8: the classifier's answer changes the step log only: when analyzeQuery has
\* returned nothing has been provisioned or written yet, and the kinds provisioned,
\* the tables that get rows and the routes written are those the query's keywords
\* name, whatever was answered.
C8_ClassifierAdvisory ==
  \A a \in Agents :
    LET named == KeywordKinds(ctx[a].query) IN
    /\ pc[a].step \in {"analyze", "exec"}
         => (run[a].entered = {} /\ run[a].added = {} /\ run[a].written = {})
    /\ run[a].entered \subseteq named
    /\ run[a].written \subseteq named
    /\ run[a].added \subseteq UNION {TablesOf(k) : k \in named}
    /\ pc[a].step \in {"routes", "write", "done"} => run[a].completed = named
    /\ pc[a].step = "done" => run[a].written = named

\* a run whose classifier answer could not be parsed provisioned and wrote its kinds
C8_Witness ==
  \E a \in Agents :
    /\ pc[a].step = "done"
    /\ ctx[a].steps[1] = "Analyzed query for database operations"
    /\ run[a].written = {"made for you", "popular albums"}
    /\ run[a].added = {"made_for_you_playlists", "popular_albums"}

\* C9 (as claimed): a run adds rows to a table only if it found that very table
\* empty when its populate step counted, for each of the four tables.
C9_NeverIntoNonEmptyTable ==
  \A a \in Agents : run[a].added \subseteq run[a].foundEmpty

\* C9 (amended): a run adds rows to a table of a kind only if it found the table
\* the kind's populate step counts empty: recently_played, made_for_you_playlists
\* and popular_albums for themselves, recently_played for tracks.
C9_PopulateOncePerCountedTable ==
  \A a \in Agents : \A k \in KindSet :
    TablesOf(k) \cap run[a].added # {} => GuardTable(k) \in run[a].foundEmpty

\* a run added tracks to a tracks table that held rows when the run counted
C9_Witness ==
  \E a \in Agents :
    /\ "tracks" \in run[a].added
    /\ "tracks" \notin run[a].foundEmpty
    /\ "recently_played" \in run[a].foundEmpty

\* C10 (as claimed): the first run, on the query of scenario A with the classifier
\* answering and no outside failure, ends done with both schemas present, NumSeed
\* tracks and NumSeed history rows, and the recently-played route alone written.
C10_ScenarioA ==
  \A a \in Agents :
    (runs = 1 /\ ctx[a].query = QueryRecent /\ Ended(a) /\ error[a] \notin ExternalFaults)
      => /\ pc[a].step = "done"
         /\ Exists("tracks")
         /\ Exists("recently_played")
         /\ Count("tracks") = NumSeed
         /\ Count("recently_played") = NumSeed
         /\ run[a].written = {"recently played"}

ProvisioningErrors ==
  {"create table failed", "count failed", "insert failed", "verify read failed"}
    \cup SchemaErrors

\* the ids populate<Kind>Data gives the rows it inserts into table t
SeedIds(k, t) ==
  {IF t = "recently_played" THEN HistoryId(i) ELSE Fixture(k)[i].id : i \in 1..Len(Fixture(k))}

\* C12 (as claimed): when creating the schema of the first named kind fails, the run
\* ends failed, no route is written and context.steps contains the fatal error.
C12_ScenarioD ==
  \A a \in Agents :
    (error[a] = "create table failed" /\ run[a].completed = {})
      => /\ pc[a].step = "failed"
         /\ run[a].written = {}
         /\ \E i \in DOMAIN ctx[a].steps : ctx[a].steps[i] = error[a]

\* C13: an error inside a handler ends the run failed at once: the kind it was raised
\* in is the last one entered, no later kind is entered and none of its tables
\* touched, and every kind completed before keeps its schemas and the rows the run
\* put there.
C13_AbortWithoutRollback ==
  \A a \in Agents :
    /\ error[a] # "none" => pc[a].step = "failed"
    /\ (pc[a].step = "failed" /\ error[a] \in ProvisioningErrors)
         => /\ Cardinality(run[a].entered \ run[a].completed) = 1
            /\ \A k \in KeywordKinds(ctx[a].query) \ run[a].entered :
                 /\ \A f \in run[a].entered : KindIndex(f) < KindIndex(k)
                 /\ TablesOf(k) \cap (run[a].ensured \cup run[a].added) = {}
            /\ \A k \in run[a].completed : \A t \in TablesOf(k) :
                 /\ Exists(t)
                 /\ t \in run[a].added => SeedIds(k, t) \subseteq Ids(t)

\* the second named kind failed after the first one had been seeded by the same run
C13_Witness ==
  \E a \in Agents :
    /\ pc[a].step = "failed"
    /\ error[a] \in ProvisioningErrors
    /\ run[a].completed = {"made for you"}
    /\ run[a].entered = {"made for you", "popular albums"}
    /\ "made_for_you_playlists" \in run[a].added
    /\ Count("made_for_you_playlists") = NumSeed

\* C14 (as claimed): in every mode, a process whose runs all completed exits with
\* status 0, and a process one of whose runs ended with a provisioning or
\* artifact-generation error exits with a status other than 0.
C14_ExitStatus ==
  proc.status = "exited"
    => /\ Finished("a1") => proc.code = 0
       /\ (pc["a1"].step = "failed"
             /\ error["a1"] \in ProvisioningErrors \cup {"file write failed"})
            => proc.code # 0

\* C15 (as claimed): a failure of the verifying read does not fail the run.
C15_VerifyFailureNotFatal ==
  \A a \in Agents : pc[a].step = "failed" => error[a] # "verify read failed"

\* C16: the routes of the kinds are written into pairwise distinct directories; a
\* route file a run has written holds the text that belongs to its kind, whatever
\* the file held before and whatever the store holds, in this run and in the run
\* before it; a file no run wrote is as it was; so the files after a second run on
\* the same query are the files after the first.
C16_RouteWriteIdempotent ==
  /\ \A k1, k2 \in KindSet : RoutePath(k1) = RoutePath(k2) => k1 = k2
  /\ \A d \in RoutePaths : files[d] # InitFiles[d] => \E k \in KindSet : files[d] = RouteContent(k)
  /\ \A a \in Agents : \A k \in run[a].written \cup run[a].wroteBefore :
       files[RoutePath(k)] = RouteContent(k)

\* a second run wrote again the two routes the run before it had written, one of
\* them over a file that had been edited by hand before the first run
C16_Witness ==
  \E a \in Agents :
    /\ pc[a].step = "done"
    /\ run[a].wroteBefore = {"made for you", "popular albums"}
    /\ run[a].written = {"made for you", "popular albums"}
    /\ InitFiles[RoutePath("made for you")] = "edited by hand"
    /\ files[RoutePath("made for you")] = RouteContent("made for you")
    /\ files[RoutePath("popular albums")] = RouteContent("popular albums")

\* C17: a run that has begun createAPIRoutes ends done only with the route of
\* every named kind written and no error; a file system failure ends it failed at
\* once, with the routes before the failing one written, the failing one and those
\* after it not, and the seeded tables still holding what the run put there; nothing
\* else can fail it from there.
C17_ArtifactFailureFatal ==
  \A a \in Agents :
    LET named == KeywordKinds(ctx[a].query) IN
    /\ pc[a].step = "done" => (run[a].written = named /\ error[a] = "none")
    /\ (pc[a].step = "failed" /\ ctx[a].currentStep >= 3) => error[a] = "file write failed"
    /\ error[a] = "file write failed"
         => /\ pc[a].step = "failed"
            /\ run[a].completed = named
            /\ run[a].written # named
            /\ \A k \in named \ run[a].written : \A w \in run[a].written :
                 KindIndex(w) < KindIndex(k)
            /\ \A k \in named : \A t \in TablesOf(k) :
                 /\ Count(GuardTable(k)) > 0
                 /\ t \in run[a].added => SeedIds(k, t) \subseteq Ids(t)

\* the second route could not be written after the first was, in a run that had
\* seeded both tables
C17_Witness ==
  \E a \in Agents :
    /\ pc[a].step = "failed"
    /\ error[a] = "file write failed"
    /\ run[a].written = {"made for you"}
    /\ run[a].added = {"made_for_you_playlists", "popular_albums"}
    /\ Count("popular_albums") = NumSeed

\* C18: no step of any run, completed or failed, removes a row from a table or
\* changes a field of a row: a row that is in a table stays in it as it is.
C18_InsertOnly ==
  [][\A t \in Tables : \A r \in rows[t] : r \in rows'[t]]_vars

\* a second run added rows to tables that held rows a failed run had left
C18_Witness ==
  \E a \in Agents :
    /\ runs = 2
    /\ pc[a].step = "done"
    /\ "recently_played" \in run[a].added
    /\ "tracks" \notin run[a].foundEmpty
    /\ Count("tracks") = NumSeed
    /\ Count("recently_played") = NumSeed

\* two runs counted the table of kind k empty and both went through their inserts
BothSeeded(k) ==
  \A a \in Agents :
    /\ GuardTable(k) \in run[a].foundEmpty
    /\ k \in run[a].completed

\* C19 (as claimed): when two runs on one store both count the table of a kind
\* empty and both insert the seed rows, the kind is left with more rows than one
\* run produces.
C19_DoubleSeeded ==
  \A k \in KindSet : BothSeeded(k) => Count(GuardTable(k)) > Len(Fixture(k))

\* C19 (amended): two runs side by side can both count a table empty and both
\* execute the inserts, yet no table ever holds two rows with one id or more rows
\* than one run produces, and every row carries a seed id of its table.
C19_RaceLeavesSingleSeed ==
  \A k \in KindSet : \A t \in TablesOf(k) :
    /\ Ids(t) \subseteq SeedIds(k, t)
    /\ Cardinality(rows[t]) = Cardinality(Ids(t))
    /\ Count(t) <= Len(Fixture(k))

\* both runs counted recently_played empty and both ran their inserts to the end
C19_Witness ==
  /\ BothSeeded("recently played")
  /\ \A a \in Agents : pc[a].step = "done"
  /\ Count("recently_played") = NumSeed
  /\ Count("tracks") = NumSeed

\* C20 (as claimed): every element the three routes answer has exactly the fields
\* id, title, artist, album, image and duration; the made-for-you route gives the
\* description as artist and the fixed default duration.
C20_UniformShape ==
  /\ \A e \in RecentlyPlayedGET : DOMAIN e = TrackShape
  /\ \A e \in PopularAlbumsGET : DOMAIN e = TrackShape
  /\ \A literal \in LiteralOutcomes : \A e \in MadeForYouGET(literal) :
       /\ DOMAIN e = TrackShape
       /\ e.duration = DefaultDuration
       /\ \E r \in rows["made_for_you_playlists"] : r.id = e.id /\ e.artist = r.description

\* the entries context.steps can hold at position i: one per phase, in phase order
PhaseLog(i) ==
  CASE i = 1 -> {"Analyzed query: description", "Analyzed query for database operations"}
    [] i = 2 -> {"Executed database operations"}
    [] i = 3 -> {"Created API routes"}
    [] i = 4 -> {"Prepared frontend integration (bonus)"}

\* C21: every processQuery call starts from a fresh context: when a run is about
\* to classify, its step log is empty, its step counter is 0 and its query is the
\* text of this call, however the call before it ended; at every moment the step
\* log holds entries of the present run only, at most one per phase and in phase
\* order, and never more entries than phases begun.
C21_FreshRunState ==
  \A a \in Agents :
    /\ pc[a].step = "analyze"
         => (ctx[a].steps = <<>> /\ ctx[a].currentStep = 0 /\ ctx[a].query \in Queries)
    /\ Len(ctx[a].steps) <= ctx[a].currentStep
    /\ ctx[a].currentStep <= 4
    /\ \A i \in DOMAIN ctx[a].steps : ctx[a].steps[i] \in PhaseLog(i)
    /\ pc[a].step = "done" => Len(ctx[a].steps) = 4

\* the second call on an agent, made after a call that failed in a handler and
\* left a table it had created, has ended with the four entries of its own run
C21_Witness ==
  \E a \in Agents :
    /\ runs = 2
    /\ pc[a].step = "done"
    /\ ctx[a].query = QueryNone
    /\ Len(ctx[a].steps) = 4
    /\ run[a].okBefore = {}
    /\ \E t \in Tables : schema[t] = "agent"

\* the tables a sequence of create statements names
Range(seq) == {seq[i] : i \in DOMAIN seq}

\* C22: ensureTableExists issues a create statement on a table exactly when its
\* count read on that table raised, whether or not the table is there, and none
\* when the read returned; it issues at most one per call; a create statement
\* that raises ends the run failed with that error.
C22_CreateOnlyOnFailedRead ==
  \A a \in Agents :
    /\ Range(run[a].created) \cap run[a].readOk = {}
    /\ Range(run[a].created) \cup run[a].readOk = run[a].ensured
    /\ \A i, j \in DOMAIN run[a].created : run[a].created[i] = run[a].created[j] => i = j
    /\ \A t \in Tables : (schema[t] = "absent" /\ t \in run[a].ensured)
         => (error[a] = "create table failed" /\ run[a].created[Len(run[a].created)] = t)
    /\ error[a] = "create table failed"
         => /\ pc[a].step = "failed"
            /\ run[a].created # <<>>
            /\ run[a].created[Len(run[a].created)] \notin run[a].readOk

\* a run on tables that were all there issued a create statement on the one whose
\* count read raised and none on the one whose count read returned
C22_Witness ==
  \E a \in Agents :
    /\ pc[a].step = "done"
    /\ \A t \in Tables : schema[t] = "pushed"
    /\ run[a].created = <<"made_for_you_playlists">>
    /\ run[a].readOk = {"popular_albums"}

\* the phase of processQuery a position belongs to: analyzeQuery, executeOperations
\* with its handlers, createAPIRoutes, the return after updateFrontend, the throw
PhaseRank(p) ==
  CASE p.step = "idle" -> 0
    [] p.step = "analyze" -> 1
    [] p.step \in {"exec", "ensure", "count", "insert", "verify"} -> 2
    [] p.step \in {"routes", "write"} -> 3
    [] p.step = "done" -> 4
    [] p.step = "failed" -> 5

\* C23: a run goes through classifying, provisioning, generating artifacts and
\* reporting in that order and never back to a phase it has left; no step of a
\* run leaves it where it was (no call is made again); an ended run moves only by
\* a new call, which starts at classifying; and every run under way ends, done or
\* failed, provided every awaited call returns or raises.
C23_SinglePassAndTerminates ==
  /\ [][\A a \in Agents :
          /\ Running(a) => PhaseRank(pc'[a]) >= PhaseRank(pc[a])
          /\ (Running(a) /\ pc'[a] = pc[a] /\ idx'[a] = idx[a])
               => (ctx'[a] = ctx[a] /\ run'[a] = run[a] /\ error'[a] = error[a])
          /\ (~Running(a) /\ pc'[a] # pc[a]) => pc'[a].step = "analyze"]_vars
  /\ \A a \in Agents : Running(a) ~> Ended(a)

\* a run has gone through all four phases, seeding two tables and writing its
\* route on the way
C23_Witness ==
  \E a \in Agents :
    /\ pc[a].step = "done"
    /\ ctx[a].currentStep = 4
    /\ run[a].added = {"tracks", "recently_played"}
    /\ run[a].written = {"recently played"}

\* C24 (as claimed): a table createTableIfNotExists has created has every column
\* schema.ts declares for it, so no insert or select of the agent on a table it
\* created fails for a column that is not there.
C24_CreatedTableHasDeclaredColumns ==
  /\ \A t \in Tables : schema[t] = "agent" => DeclaredColumns(t) \subseteq ColumnsOf(t)
  /\ \A a \in Agents : error[a] # "no such column"

\* C25 (as claimed): when a run that names a kind ends done, every table of the
\* kind holds a row for every seed id of the kind, also after an earlier run that
\* failed part-way through seeding.
C25_DoneMeansFullySeeded ==
  \A a \in Agents :
    pc[a].step = "done"
      => \A k \in KeywordKinds(ctx[a].query) : \A t \in TablesOf(k) : SeedIds(k, t) \subseteq Ids(t)

\* the positions inside executeOperations
ProvisioningSteps == {"exec", "ensure", "count", "insert", "verify"}

\* C26: while a run is provisioning it has written no artifact; once it writes
\* artifacts every handler it entered has returned; and when it ends done the kinds
\* whose artifact it wrote are the kinds it provisioned.
C26_ArtifactsAfterProvisioning ==
  \A a \in Agents :
    /\ pc[a].step \in ProvisioningSteps \cup {"analyze"} => run[a].written = {}
    /\ (pc[a].step = "write" \/ run[a].written # {})
         => (run[a].entered = run[a].completed /\ run[a].written \subseteq run[a].completed)
    /\ pc[a].step = "write" => pc[a].kind \in run[a].completed
    /\ pc[a].step = "done" => run[a].written = run[a].completed

\* the second artifact is about to be written after the first, both kinds provisioned
C26_Witness ==
  \E a \in Agents :
    /\ pc[a].step = "write"
    /\ pc[a].kind = "popular albums"
    /\ run[a].written = {"made for you"}
    /\ run[a].completed = {"made for you", "popular albums"}

\* do the kinds of set done come before all other kinds of set named, in the order
\* recently played, made for you, popular albums
InFixedOrder(done, named) ==
  \A k1 \in done : \A k2 \in named \ done : KindIndex(k1) < KindIndex(k2)

\* C27: the handlers are entered, and the artifacts written, in the order recently
\* played, made for you, popular albums, wherever the triggers stand in the query
\* text: what has been entered, completed or written so far always comes before
\* what is still to come; in the recently-played handler tracks is ensured before
\* recently_played, and both before the count and every insert.
C27_FixedOrder ==
  \A a \in Agents :
    LET named == KeywordKinds(ctx[a].query) IN
    /\ InFixedOrder(run[a].entered, named)
    /\ InFixedOrder(run[a].completed, named)
    /\ InFixedOrder(run[a].written, named)
    /\ pc[a].step \in {"ensure", "count", "insert", "verify"}
         => /\ pc[a].kind \in run[a].entered
            /\ InFixedOrder(run[a].entered \ {pc[a].kind}, {pc[a].kind})
    /\ pc[a].step = "write" => InFixedOrder(run[a].written, {pc[a].kind})
    /\ "recently_played" \in run[a].ensured => "tracks" \in run[a].ensured
    /\ (pc[a].step = "ensure" /\ pc[a].tbl = "recently_played") => "tracks" \in run[a].ensured
    /\ (pc[a].kind = "recently played" /\ pc[a].step \in {"count", "insert", "verify"})
         => {"tracks", "recently_played"} \subseteq run[a].ensured
    /\ run[a].added \cap {"tracks", "recently_played"} # {}
         => {"tracks", "recently_played"} \subseteq run[a].ensured

\* after a run that provisioned recently played, a run on a query that names
\* popular albums before made for you has completed made for you and entered
\* popular albums
C27_Witness ==
  \E a \in Agents :
    /\ ctx[a].query = QueryReversed
    /\ run[a].okBefore = {"recently played"}
    /\ run[a].completed = {"made for you"}
    /\ pc[a].kind = "popular albums"
    /\ pc[a].step = "ensure"
    /\ {"tracks", "recently_played"} \subseteq {t \in Tables : rows[t] # {}}

\* C28: a run on a query that contains none of the three triggers changes no
\* table, no row and no artifact file at any step; it can end failed only by the
\* classifier call raising; and when it ends done its step log has exactly four
\* entries, one per phase, in phase order.
C28_NoTriggerNoEffect ==
  [][\A a \in Agents :
       (KeywordKinds(ctx'[a].query) = {} /\ pc'[a] # pc[a])
         => /\ UNCHANGED <<schema, rows, files>>
            /\ pc'[a].step = "failed" => error'[a] = "classifier call failed"
            /\ pc'[a].step = "done"
                 => /\ Len(ctx'[a].steps) = 4
                    /\ \A i \in 1..4 : ctx'[a].steps[i] \in PhaseLog(i)
                    /\ ctx'[a].currentStep = 4
                    /\ run'[a].entered = {}
                    /\ run'[a].written = {}]_vars

\* a run without trigger has ended done on a store an earlier run had seeded
C28_Witness ==
  \E a \in Agents :
    /\ pc[a].step = "done"
    /\ ctx[a].query = QueryNone
    /\ run[a].okBefore = {"recently played"}
    /\ run[a].ensured = {}
    /\ Count("recently_played") = NumSeed
    /\ files[RoutePath("recently played")] = RouteContent("recently played")

-----------------------------------------------------------------------------
(* The read side: the recently-played route as served, and the component    *)
(* SpotifyMainContentDB that fetches the three routes                       *)

\* .limit(10) of the recently-played route
RouteLimit == 10
\* history rows in the stores the read side is run on
MaxHistory == 11
\* fetchData calls in one behaviour
MaxFetches == 2

Min(x, y) == IF x < y THEN x ELSE y

\* .orderBy(recentlyPlayed.playedAt): ascending, the earliest playedAt first (the
\* stores drawn below hold no two history rows with one playedAt)
OrderByPlayedAt(elements) ==
  [r \in 1..Cardinality(elements) |->
     CHOOSE e \in elements : Cardinality({f \in elements : f.playedAt < e.playedAt}) = r - 1]

Limit(seq, n) == SubSeq(seq, 1, Min(Len(seq), n))

\* what the select of the recently-played route returns
RecentlyPlayedRoute == Limit(OrderByPlayedAt(RecentlyPlayedGET), RouteLimit)

\* Date.prototype.toJSON of a timestamp column, as it comes back from response.json()
ToISOString(seconds) == "date " \o ToString(seconds)

\* NextResponse.json(recentTracks) read back by response.json()
RecentlyPlayedBody == [i \in DOMAIN RecentlyPlayedRoute |->
                         [RecentlyPlayedRoute[i] EXCEPT !.playedAt = ToISOString(@)]]

Endpoints == {"/api/recently-played", "/api/made-for-you", "/api/popular-albums"}

\* a fetch is answered with status 200, answered with status 500 by the catch of
\* the route, or rejected
Outcomes == {"ok", "status 500", "rejected"}

\* the error body of a route's catch
ErrorBody == [error |-> "Failed to fetch"]

\* stores to read from: n history rows an hour apart, the one with the lowest id
\* played last or played first, each with its track or the first one dangling,
\* beside seeded or empty playlists and albums
StoredTrack(i) ==
  [id |-> "t" \o ToString(i), title |-> "title", artist |-> "artist", album |-> "album",
   albumArt |-> "image", duration |-> 180 + i, createdAt |-> 0]

StoredHistory(i, newestFirst) ==
  [id |-> HistoryId(i), trackId |-> "t" \o ToString(i),
   playedAt |-> (HourMs \div SecondMs) * (IF newestFirst THEN MaxHistory + 1 - i ELSE i)]

Stores ==
  {[t \in Tables |->
      CASE t = "tracks" -> {StoredTrack(i) : i \in (IF dangling THEN 2 ELSE 1)..MaxHistory}
        [] t = "recently_played" -> {StoredHistory(i, newestFirst) : i \in 1..n}
        [] t = "made_for_you_playlists" ->
             {SeedRow("made for you", t, i, 0) : i \in 1..(IF seeded THEN NumSeed ELSE 0)}
        [] t = "popular_albums" ->
             {SeedRow("popular albums", t, i, 0) : i \in 1..(IF seeded THEN NumSeed ELSE 0)}] :
     n \in 0..MaxHistory, newestFirst \in BOOLEAN, dangling \in BOOLEAN, seeded \in BOOLEAN}

InitFrontend ==
  /\ schema = [t \in Tables |-> "pushed"]
  /\ rows \in Stores
  /\ files = [d \in RoutePaths |-> RouteContent(CHOOSE k \in KindSet : RoutePath(k) = d)]
  /\ now = 0
  /\ ticks = 0
  /\ pc = [a \in Agents |-> At("idle")]
  /\ ctx = [a \in Agents |-> [query |-> <<>>, steps |-> <<>>, currentStep |-> 0]]
  /\ idx = [a \in Agents |-> 0]
  /\ run = [a \in Agents |-> FreshRun]
  /\ error = [a \in Agents |-> "none"]
  /\ runs = 0
  /\ proc = NoProc
  /\ ui = InitialUi

\* fetchData up to its first await: setLoading(true), setError(null), the three
\* fetches sent
FetchDataBegin ==
  /\ ui.calls < MaxFetches
  /\ ui' = [ui EXCEPT !.loading = TRUE, !.error = "null", !.step = "fetching",
                      !.responses = <<>>, !.badJson = {}, !.calls = @ + 1]
  /\ UNCHANGED <<schema, rows, files, now, ticks, pc, ctx, idx, run, error, runs, proc>>

\* useEffect(() => { fetchData() }, []): once, after the first render
UseEffect ==
  /\ ui.step = "mounted"
  /\ FetchDataBegin

\* the Retry button, rendered when loading is false and error is set
Retry ==
  /\ ui.step = "idle"
  /\ ~ui.loading
  /\ ui.error # "null"
  /\ FetchDataBegin

\* the catch and the finally of fetchData
CatchFinally(u) == [u EXCEPT !.error = "Failed to load data from database",
                             !.loading = FALSE, !.step = "idle"]

\* a variant of the status test that looks at the first response only
AllOkFirstOnly(out) == out["/api/recently-played"] = "ok"

\* !recentResponse.ok || !madeForYouResponse.ok || !popularResponse.ok, negated
AllOk(out) == \A e \in Endpoints : out[e] = "ok"

\* the first Promise.all settles: rejected if a fetch was, else the status test
FetchResponses ==
  /\ ui.step = "fetching"
  /\ \E out \in [Endpoints -> Outcomes] :
       LET u == [ui EXCEPT !.responses = out] IN
       IF (\E e \in Endpoints : out[e] = "rejected") \/ ~AllOk(out)
         THEN ui' = CatchFinally(u)
         ELSE ui' = [u EXCEPT !.step = "parsing"]
  /\ UNCHANGED <<schema, rows, files, now, ticks, pc, ctx, idx, run, error, runs, proc>>

\* the body of the response of endpoint e: the rows selected, or the error body
Body(e, literal) ==
  IF ui.responses[e] # "ok" THEN ErrorBody
  ELSE CASE e = "/api/recently-played" -> RecentlyPlayedBody
         [] e = "/api/made-for-you" -> MadeForYouGET(literal)
         [] e = "/api/popular-albums" -> PopularAlbumsGET

\* the second Promise.all settles: rejected if a body is no JSON, else the three
\* setters, then the finally
ParseBodies ==
  /\ ui.step = "parsing"
  /\ \E bad \in SUBSET Endpoints : \E literal \in LiteralOutcomes :
       LET u == [ui EXCEPT !.badJson = bad] IN
       IF bad # {}
         THEN ui' = CatchFinally(u)
         ELSE ui' = [u EXCEPT !.recentlyPlayed = Body("/api/recently-played", literal),
                              !.madeForYou = Body("/api/made-for-you", literal),
                              !.popularAlbums = Body("/api/popular-albums", literal),
                              !.loading = FALSE, !.step = "idle"]
  /\ UNCHANGED <<schema, rows, files, now, ticks, pc, ctx, idx, run, error, runs, proc>>

NextFrontend ==
  \/ UseEffect
  \/ Retry
  \/ FetchResponses
  \/ ParseBodies

SpecFrontend == InitFrontend /\ [][NextFrontend]_vars

\* the history rows whose track is stored
Joinable == {h \in rows["recently_played"] : h.trackId \in Ids("tracks")}

\* C29 (as claimed): the recently-played route returns at most ten rows, each a
\* history row joined to its stored track, and when more than ten history rows
\* can be joined the rows returned are those of the ten played last.
C29_TenMostRecent ==
  LET answer == RecentlyPlayedRoute IN
  /\ Len(answer) <= RouteLimit
  /\ \A i \in DOMAIN answer :
       \E h \in rows["recently_played"] : \E t \in rows["tracks"] :
         /\ h.trackId = t.id
         /\ answer[i].id = t.id
         /\ answer[i].playedAt = h.playedAt
  /\ Cardinality(Joinable) > RouteLimit
       => {answer[i].playedAt : i \in DOMAIN answer}
            = {h.playedAt : h \in {g \in Joinable :
                 Cardinality({f \in Joinable : f.playedAt > g.playedAt}) < RouteLimit}}

\* the three lists of the component are as useState initialised them
ListsUntouched ==
  /\ ui.recentlyPlayed = InitialUi.recentlyPlayed
  /\ ui.madeForYou = InitialUi.madeForYou
  /\ ui.popularAlbums = InitialUi.popularAlbums

\* C30: fetchData sets the three lists all or none: while it is under way loading
\* is true and error is null; once it has finished loading is false; if a fetch was
\* rejected, a response was not ok or a body was no JSON, error is set and none of
\* the three lists has changed; otherwise error is null and each list holds what
\* its endpoint answered; a call started by Retry obeys the same.
C30_AllOrNothing ==
  /\ ui.step \in {"fetching", "parsing"} => (ui.loading /\ ui.error = "null" /\ ListsUntouched)
  /\ ui.error # "null" => ListsUntouched
  /\ ui.step = "idle"
       => /\ ~ui.loading
          /\ IF (\E e \in Endpoints : ui.responses[e] # "ok") \/ ui.badJson # {}
               THEN ui.error # "null" /\ ListsUntouched
               ELSE /\ ui.error = "null"
                    /\ ui.recentlyPlayed = RecentlyPlayedBody
                    /\ \E literal \in LiteralOutcomes : ui.madeForYou = MadeForYouGET(literal)
                    /\ ui.popularAlbums = PopularAlbumsGET

\* a call started by Retry after a failed one has filled the three lists
C30_Witness ==
  /\ ui.calls = 2
  /\ ui.step = "idle"
  /\ ui.error = "null"
  /\ ~ui.loading
  /\ Len(ui.recentlyPlayed) = RouteLimit
  /\ Cardinality(ui.madeForYou) = NumSeed
  /\ Cardinality(ui.popularAlbums) = NumSeed

====
